---- MODULE Spec2Model ----
(***************************************************************************)
(* A model of src/bot.py: the BinanceFuturesBot gateway (order placement,  *)
(* queries, the two-call OCO emulation) and the TradingUI menu loop.       *)
(*                                                                         *)
(* Text typed by the operator and text returned by the exchange is a       *)
(* sequence of one-character strings, so that str.strip, str.upper,        *)
(* str.lower, float() and int() are computed and not assumed.  A number    *)
(* is a decimal [m |-> mantissa, e |-> number of fractional digits]; the   *)
(* binary rounding of Python floats is not modelled.  An optional value    *)
(* is a sequence of length 0 (None) or 1.                                  *)
(***************************************************************************)
EXTENDS Integers, Sequences, FiniteSets, TLC

VARIABLES pc, choice, form, confirm, calls, log, screen, inv, ex, exitStatus

vars == <<pc, choice, form, confirm, calls, log, screen, inv, ex, exitStatus>>

\* ---------------------------------------------------------------- bounds

\* The exchange assigns order ids 1..MaxOrders and rejects further orders.
MaxOrders == 2

\* The longest position list the exchange reports.
MaxPositions == 3

\* ------------------------------------------------------------------ text

None == <<>>

Some(v) == <<v>>

LowerLetters ==
  <<"a","b","c","d","e","f","g","h","i","j","k","l","m",
    "n","o","p","q","r","s","t","u","v","w","x","y","z">>

UpperLetters ==
  <<"A","B","C","D","E","F","G","H","I","J","K","L","M",
    "N","O","P","Q","R","S","T","U","V","W","X","Y","Z">>

Digits == <<"0","1","2","3","4","5","6","7","8","9">>

IndexIn(c, seq) == CHOOSE k \in 1..Len(seq) : seq[k] = c

IsIn(c, seq) == \E k \in 1..Len(seq) : seq[k] = c

\* str.upper()
Upper(s) ==
  [i \in 1..Len(s) |->
     IF IsIn(s[i], LowerLetters) THEN UpperLetters[IndexIn(s[i], LowerLetters)]
     ELSE s[i]]

\* str.lower()
Lower(s) ==
  [i \in 1..Len(s) |->
     IF IsIn(s[i], UpperLetters) THEN LowerLetters[IndexIn(s[i], UpperLetters)]
     ELSE s[i]]

\* str.strip()
Strip(s) ==
  LET keep == {i \in 1..Len(s) : s[i] # " "}
      lo   == CHOOSE i \in keep : \A j \in keep : i <= j
      hi   == CHOOSE i \in keep : \A j \in keep : j <= i
  IN IF keep = {} THEN <<>> ELSE SubSeq(s, lo, hi)

AllDigits(s) == \A i \in 1..Len(s) : IsIn(s[i], Digits)

RECURSIVE NatOf(_)
NatOf(s) ==
  IF s = <<>> THEN 0
  ELSE NatOf(SubSeq(s, 1, Len(s) - 1)) * 10 + (IndexIn(s[Len(s)], Digits) - 1)

HasSign(s) == Len(s) > 0 /\ s[1] \in {"+", "-"}

Unsigned(s) == IF HasSign(s) THEN Tail(s) ELSE s

SignOf(s) == IF HasSign(s) /\ s[1] = "-" THEN -1 ELSE 1

\* float(s) for the decimal notation [sign] digits [. digits]: the parsed
\* decimal, or ok = FALSE where Python raises ValueError.
ParseFloat(s) ==
  LET body == Unsigned(s)
      dots == {i \in 1..Len(body) : body[i] = "."}
      dot  == CHOOSE i \in dots : TRUE
      ip   == IF dots = {} THEN body ELSE SubSeq(body, 1, dot - 1)
      fp   == IF dots = {} THEN <<>> ELSE SubSeq(body, dot + 1, Len(body))
  IN IF /\ Cardinality(dots) <= 1
        /\ AllDigits(ip) /\ AllDigits(fp)
        /\ Len(ip) + Len(fp) > 0
     THEN [ok |-> TRUE, m |-> SignOf(s) * NatOf(ip \o fp), e |-> Len(fp)]
     ELSE [ok |-> FALSE, m |-> 0, e |-> 0]

\* int(s): [sign] digits, or ok = FALSE where Python raises ValueError.
ParseInt(s) ==
  LET body == Unsigned(s)
  IN IF Len(body) > 0 /\ AllDigits(body)
     THEN [ok |-> TRUE, n |-> SignOf(s) * NatOf(body)]
     ELSE [ok |-> FALSE, n |-> 0]

Dec(m, e) == [m |-> m, e |-> e]

DecOf(p) == Dec(p.m, p.e)

RECURSIVE Pow10(_)
Pow10(k) == IF k = 0 THEN 1 ELSE 10 * Pow10(k - 1)

\* Equality of two decimals as numbers.
DecEq(a, b) == a.m * Pow10(b.e) = b.m * Pow10(a.e)

\* x != 0 on a number
NonZero(d) == d.m # 0

\* -------------------------------------------------------------- exchange

S(t) ==
  CASE t = "BUY"     -> <<"B","U","Y">>
    [] t = "SELL"    -> <<"S","E","L","L">>
    [] t = "BTCUSDT" -> <<"B","T","C","U","S","D","T">>
    [] t = "ETHUSDT" -> <<"E","T","H","U","S","D","T">>

\* What python-binance can do on one call: return, raise BinanceAPIException,
\* or raise some other exception (transport failure).
Failures == {"BinanceAPIException", "Exception"}

\* A request to the client library; absent keyword arguments are None or "".
Request(op, symbol, side, type, quantity, price, stopPrice, tif, orderId) ==
  [op |-> op, symbol |-> symbol, side |-> side, type |-> type,
   quantity |-> quantity, price |-> price, stopPrice |-> stopPrice,
   timeInForce |-> tif, orderId |-> orderId]

\* The amounts the exchange reports as positionAmt.
PositionAmts ==
  { <<"0",".","0","0","0">>, <<"1",".","5">>, <<"-","2",".","0">>, <<"-","0",".","0">> }

Position(amt) == [symbol |-> S("BTCUSDT"), positionAmt |-> amt]

RECURSIVE SeqsUpTo(_, _)
SeqsUpTo(set, n) ==
  IF n = 0 THEN {<<>>}
  ELSE LET shorter == SeqsUpTo(set, n - 1)
       IN shorter \cup {Append(q, x) : q \in {r \in shorter : Len(r) = n - 1}, x \in set}

PositionLists == SeqsUpTo({Position(a) : a \in PositionAmts}, MaxPositions)

\* The data of a successful response that the exchange chooses freely.
Payloads(op) ==
  IF op = "futures_position_information" THEN PositionLists ELSE {None}

\* An outcome of one call: exc = "ok", or the exception raised.
Outcomes(op) ==
  [exc : {"ok"}, data : Payloads(op)] \cup [exc : Failures, data : {None}]

\* The outcomes the exchange can produce for a request in state e: it assigns
\* order ids in sequence, cancels only a live order, knows only the orders it
\* has assigned.
ExAllowed(e, req, o) ==
  \/ o.exc \in Failures
  \/ /\ o.exc = "ok"
     /\ req.op = "futures_create_order" => e.nextId <= MaxOrders
     /\ req.op = "futures_cancel_order" =>
          req.orderId # None /\ req.orderId[1] \in e.live
     /\ req.op = "futures_get_order" =>
          req.orderId # None /\ req.orderId[1] \in 1..(e.nextId - 1)

\* The exchange's state after a successful request.
ExAfter(e, req) ==
  CASE req.op = "futures_create_order" ->
         [nextId |-> e.nextId + 1, live |-> e.live \cup {e.nextId}]
    [] req.op = "futures_cancel_order" ->
         [nextId |-> e.nextId, live |-> e.live \ {req.orderId[1]}]
    [] OTHER -> e

\* The value python-binance returns for a successful request.
ExValue(e, req, o) ==
  CASE req.op = "futures_create_order"  -> [orderId |-> e.nextId]
    [] req.op = "futures_cancel_order"  -> [orderId |-> req.orderId[1]]
    [] req.op = "futures_get_order"     ->
         [orderId |-> req.orderId[1],
          status  |-> IF req.orderId[1] \in e.live THEN "NEW" ELSE "CANCELED"]
    [] req.op = "futures_symbol_ticker" -> [price |-> <<"1","0","0",".","5">>]
    [] req.op = "futures_get_open_orders" -> [n |-> Cardinality(e.live)]
    [] req.op = "futures_position_information" -> o.data
    [] OTHER -> None

\* ------------------------------------------------- statements of a method

\* The state of one gateway method while it runs: the client calls made, the
\* log lines written, the exchange, the pending exception, the value of the
\* last successful call, and whether the exchange could answer as drawn.
Enter(e) ==
  [calls |-> <<>>, log |-> <<>>, ex |-> e, exc |-> "none", val |-> None,
   legal |-> TRUE]

LogLine(level, msg, arg) == [level |-> level, msg |-> msg, arg |-> arg]

\* logger.info / logger.error, skipped while an exception is pending.
Info(st, msg, arg) ==
  IF st.exc # "none" THEN st
  ELSE [st EXCEPT !.log = Append(@, LogLine("INFO", msg, arg))]

\* raise ValueError(...)
Raise(st, exc) == IF st.exc # "none" THEN st ELSE [st EXCEPT !.exc = exc]

\* A client call that sends a refused request a second time before raising.
ClientCallRetry(st, req, o) ==
  IF st.exc # "none" THEN st
  ELSE LET resp == [exc |-> o.exc,
                    val |-> IF o.exc = "ok" THEN ExValue(st.ex, req, o) ELSE None]
           sent == [req |-> req, resp |-> resp]
       IN [st EXCEPT
             !.calls = IF o.exc = "ok" THEN Append(@, sent)
                       ELSE Append(Append(@, sent), sent),
             !.legal = @ /\ ExAllowed(st.ex, req, o),
             !.ex    = IF o.exc = "ok" THEN ExAfter(@, req) ELSE @,
             !.exc   = IF o.exc = "ok" THEN "none" ELSE o.exc,
             !.val   = resp.val]

\* self.client.<op>(...), skipped while an exception is pending.
ClientCall(st, req, o) ==
  IF st.exc # "none" THEN st
  ELSE LET resp == [exc |-> o.exc,
                    val |-> IF o.exc = "ok" THEN ExValue(st.ex, req, o) ELSE None]
       IN [st EXCEPT
             !.calls = Append(@, [req |-> req, resp |-> resp]),
             !.legal = @ /\ ExAllowed(st.ex, req, o),
             !.ex    = IF o.exc = "ok" THEN ExAfter(@, req) ELSE @,
             !.exc   = IF o.exc = "ok" THEN "none" ELSE o.exc,
             !.val   = resp.val]

\* except BinanceAPIException as e: logger.error(...); raise
ExceptApi(st, msg) ==
  IF st.exc = "BinanceAPIException"
  THEN [st EXCEPT !.log = Append(@, LogLine("ERROR", msg, None))]
  ELSE st

\* What a gateway method hands back: the exception raised or the value
\* returned, with the method's local variables at that point.
Return(st, val, locals) ==
  [calls |-> st.calls, log |-> st.log, ex |-> st.ex, legal |-> st.legal,
   ret |-> [exc |-> st.exc, val |-> IF st.exc = "none" THEN val ELSE None],
   locals |-> locals]

\* ---------------------------------------------------- BinanceFuturesBot

\* The order id of the call just made, for a log line.
OrderIdOf(st) == IF st.exc = "none" THEN Some(st.val.orderId) ELSE None

\* The side as passed, its case kept.
NormalizeSideVerbatim(side) == side

\* side = side.upper()
NormalizeSide(side) == Upper(side)

\* side in ['BUY', 'SELL']
ValidSide(side) == side \in {S("BUY"), S("SELL")}

\* if side not in ['BUY', 'SELL']: raise ValueError(...)
CheckSide(st, side) == IF ValidSide(side) THEN st ELSE Raise(st, "ValueError")

\* __init__ with the exception of the ping dropped instead of raised again.
BotInitSwallow(e, session, o) ==
  LET s0 == Raise(Enter(e), IF session = "ok" THEN "none" ELSE session)
      s1 == Info(s0, "Initialized bot with TESTNET configuration", None)
      s2 == ClientCall(s1, Request("futures_ping", None, None, "", None, None,
                                   None, "", None), o)
  IN Return([s2 EXCEPT !.exc = s0.exc], None, None)

\* __init__: create the client, then futures_ping(); any exception of the
\* ping is logged and raised again.  session is "ok" or the exception the
\* client's constructor raises.
BotInit(e, session, o) ==
  LET s0 == Raise(Enter(e), IF session = "ok" THEN "none" ELSE session)
      s1 == Info(s0, "Initialized bot with TESTNET configuration", None)
      s2 == ClientCall(s1, Request("futures_ping", None, None, "", None, None,
                                   None, "", None), o)
      s3 == Info(s2, "Successfully connected to Binance Futures API", None)
      s4 == IF s2.exc # "none" /\ s0.exc = "none"
            THEN [s3 EXCEPT !.log = Append(@, LogLine("ERROR", "Failed to connect to API", None))]
            ELSE s3
  IN Return(s4, None, None)

get_account_balance(e, o) ==
  LET s1 == ClientCall(Enter(e), Request("futures_account_balance", None, None,
                                         "", None, None, None, "", None), o)
      s2 == Info(s1, "Retrieved account balance", None)
      s3 == ExceptApi(s2, "API error getting balance")
  IN Return(s3, s3.val, None)

get_symbol_price(symbol, e, o) ==
  LET s1 == ClientCall(Enter(e), Request("futures_symbol_ticker", symbol, None,
                                         "", None, None, None, "", None), o)
      p  == IF s1.exc = "none" THEN ParseFloat(s1.val.price) ELSE ParseFloat(<<>>)
      s2 == IF p.ok THEN s1 ELSE Raise(s1, "ValueError")
      s3 == ExceptApi(s2, "API error getting price")
  IN Return(s3, DecOf(p), None)

\* The market order's request with the type of a limit order.
MarketRequestAsLimit(symbol, side, quantity) ==
  Request("futures_create_order", symbol, side, "LIMIT", Some(quantity),
          None, None, "", None)

\* futures_create_order(symbol, side, type='MARKET', quantity)
MarketRequest(symbol, side, quantity) ==
  Request("futures_create_order", symbol, side, "MARKET", Some(quantity),
          None, None, "", None)

place_market_order(symbol, side, quantity, e, o) ==
  LET s  == NormalizeSide(side)
      s0 == CheckSide(Enter(e), s)
      s1 == Info(s0, "Placing MARKET order", None)
      s2 == ClientCall(s1, MarketRequest(symbol, s, quantity), o)
      s3 == Info(s2, "Market order placed successfully", OrderIdOf(s2))
      s4 == ExceptApi(s3, "API error placing market order")
  IN Return(s4, s4.val, [side |-> s])

LimitRequest(symbol, side, quantity, price, tif) ==
  Request("futures_create_order", symbol, side, "LIMIT", Some(quantity),
          Some(price), None, tif, None)

place_limit_order(symbol, side, quantity, price, e, o) ==
  LET s  == NormalizeSide(side)
      s0 == CheckSide(Enter(e), s)
      s1 == Info(s0, "Placing LIMIT order", None)
      s2 == ClientCall(s1, LimitRequest(symbol, s, quantity, price, "GTC"), o)
      s3 == Info(s2, "Limit order placed successfully", OrderIdOf(s2))
      s4 == ExceptApi(s3, "API error placing limit order")
  IN Return(s4, s4.val, [side |-> s])

StopRequest(symbol, side, quantity, stop_price, limit_price, tif) ==
  Request("futures_create_order", symbol, side, "STOP", Some(quantity),
          Some(limit_price), Some(stop_price), tif, None)

place_stop_limit_order(symbol, side, quantity, stop_price, limit_price, e, o) ==
  LET s  == NormalizeSide(side)
      s0 == CheckSide(Enter(e), s)
      s1 == Info(s0, "Placing STOP_LIMIT order", None)
      s2 == ClientCall(s1, StopRequest(symbol, s, quantity, stop_price,
                                       limit_price, "GTC"), o)
      s3 == Info(s2, "Stop-limit order placed successfully", OrderIdOf(s2))
      s4 == ExceptApi(s3, "API error placing stop-limit order")
  IN Return(s4, s4.val, [side |-> s])

DecMul(a, b) == Dec(a.m * b.m, a.e + b.e)

\* stop_loss_price * 0.99 if side == 'SELL' else stop_loss_price * 1.01
DefaultStopLimit(side, stop_loss_price) ==
  IF side = S("SELL") THEN DecMul(stop_loss_price, Dec(99, 2))
  ELSE DecMul(stop_loss_price, Dec(101, 2))

\* The default taken with "if not stop_limit_price": 0.0 counts as absent.
StopLimitPriceFalsy(side, stop_loss_price, stop_limit_price) ==
  IF stop_limit_price = None \/ ~NonZero(stop_limit_price[1])
  THEN DefaultStopLimit(side, stop_loss_price)
  ELSE stop_limit_price[1]

\* if stop_limit_price is None: stop_limit_price = <default>
StopLimitPrice(side, stop_loss_price, stop_limit_price) ==
  IF stop_limit_price = None THEN DefaultStopLimit(side, stop_loss_price)
  ELSE stop_limit_price[1]

StopMarketRequest(symbol, side, quantity, stop_loss_price) ==
  Request("futures_create_order", symbol, side, "STOP_MARKET", Some(quantity),
          None, Some(stop_loss_price), "", None)

\* tp_order = futures_create_order(... type='LIMIT' ...); logger.info(...)
OcoTakeProfit(st, symbol, side, quantity, take_profit_price, o) ==
  LET s1 == ClientCall(st, LimitRequest(symbol, side, quantity,
                                        take_profit_price, "GTC"), o)
  IN Info(s1, "Take-profit order placed", OrderIdOf(s1))

\* The stop-loss leg in a try block of its own: attempted whatever the
\* take-profit leg did.
OcoStopLossDetached(st, symbol, side, quantity, stop_loss_price, o) ==
  LET s1 == ClientCall([st EXCEPT !.exc = "none"],
                       StopMarketRequest(symbol, side, quantity, stop_loss_price), o)
      s2 == Info(s1, "Stop-loss order placed", OrderIdOf(s1))
  IN [s2 EXCEPT !.exc = IF st.exc # "none" THEN st.exc ELSE @]

\* The stop-loss leg with a rollback: a failure cancels the take-profit order.
OcoStopLossRollback(st, symbol, side, quantity, stop_loss_price, o) ==
  LET s1 == ClientCall(st, StopMarketRequest(symbol, side, quantity, stop_loss_price), o)
      s2 == Info(s1, "Stop-loss order placed", OrderIdOf(s1))
      rb == ClientCall([s2 EXCEPT !.exc = "none"],
                       Request("futures_cancel_order", symbol, None, "", None,
                               None, None, "", Some(st.val.orderId)),
                       [exc |-> "ok", data |-> None])
  IN IF st.exc = "none" /\ s2.exc # "none"
     THEN [rb EXCEPT !.exc = s2.exc, !.val = s2.val]
     ELSE s2

\* The stop-loss leg sent with the side opposite to the take-profit leg's.
OcoStopLossOppositeSide(st, symbol, side, quantity, stop_loss_price, o) ==
  LET other == IF side = S("BUY") THEN S("SELL") ELSE S("BUY")
      s1 == ClientCall(st, StopMarketRequest(symbol, other, quantity, stop_loss_price), o)
  IN Info(s1, "Stop-loss order placed", OrderIdOf(s1))

\* sl_order = futures_create_order(... type='STOP_MARKET' ...); logger.info(...)
OcoStopLoss(st, symbol, side, quantity, stop_loss_price, o) ==
  LET s1 == ClientCall(st, StopMarketRequest(symbol, side, quantity, stop_loss_price), o)
  IN Info(s1, "Stop-loss order placed", OrderIdOf(s1))

\* place_oco_order with the stop-loss leg sent as a STOP order whose limit
\* price is stop_limit_price.
place_oco_order_stop_limit_sent(symbol, side, quantity, take_profit_price, stop_loss_price, stop_limit_price, e, o1, o2) ==
  LET s   == NormalizeSide(side)
      s0  == CheckSide(Enter(e), s)
      slp == IF s0.exc = "none"
             THEN Some(StopLimitPrice(s, stop_loss_price, stop_limit_price))
             ELSE stop_limit_price
      s1  == Info(s0, "Placing OCO order", None)
      s2  == OcoTakeProfit(s1, symbol, s, quantity, take_profit_price, o1)
      c3  == ClientCall(s2, StopRequest(symbol, s, quantity, stop_loss_price,
                                        slp[1], "GTC"), o2)
      s3  == Info(c3, "Stop-loss order placed", OrderIdOf(c3))
      s4  == ExceptApi(s3, "API error placing OCO order")
  IN Return(s4,
            [oco_type |-> "manual", take_profit_order |-> s2.val,
             stop_loss_order |-> s3.val],
            [side |-> s, stop_limit_price |-> slp])

place_oco_order(symbol, side, quantity, take_profit_price, stop_loss_price, stop_limit_price, e, o1, o2) ==
  LET s   == NormalizeSide(side)
      s0  == CheckSide(Enter(e), s)
      slp == IF s0.exc = "none"
             THEN Some(StopLimitPrice(s, stop_loss_price, stop_limit_price))
             ELSE stop_limit_price
      s1  == Info(s0, "Placing OCO order", None)
      s2  == OcoTakeProfit(s1, symbol, s, quantity, take_profit_price, o1)
      s3  == OcoStopLoss(s2, symbol, s, quantity, stop_loss_price, o2)
      s4  == ExceptApi(s3, "API error placing OCO order")
  IN Return(s4,
            [oco_type |-> "manual", take_profit_order |-> s2.val,
             stop_loss_order |-> s3.val],
            [side |-> s, stop_limit_price |-> slp])

\* get_order_status written over cancel_order with the client call left as
\* futures_cancel_order.
get_order_status_cancelling(symbol, order_id, e, o) ==
  LET s1 == ClientCall(Enter(e), Request("futures_cancel_order", symbol, None, "",
                                         None, None, None, "", Some(order_id)), o)
      s2 == Info(s1, "Order status", Some(order_id))
      s3 == ExceptApi(s2, "API error getting order status")
  IN Return(s3, s3.val, None)

get_order_status(symbol, order_id, e, o) ==
  LET s1 == ClientCall(Enter(e), Request("futures_get_order", symbol, None, "",
                                         None, None, None, "", Some(order_id)), o)
      s2 == Info(s1, "Order status", Some(order_id))
      s3 == ExceptApi(s2, "API error getting order status")
  IN Return(s3, s3.val, None)

cancel_order(symbol, order_id, e, o) ==
  LET s1 == ClientCall(Enter(e), Request("futures_cancel_order", symbol, None, "",
                                         None, None, None, "", Some(order_id)), o)
      s2 == Info(s1, "Order cancelled successfully", Some(order_id))
      s3 == ExceptApi(s2, "API error cancelling order")
  IN Return(s3, s3.val, None)

get_open_orders(symbol, e, o) ==
  LET s1 == ClientCall(Enter(e), Request("futures_get_open_orders", symbol, None,
                                         "", None, None, None, "", None), o)
      s2 == Info(s1, "Retrieved open orders", None)
      s3 == ExceptApi(s2, "API error getting open orders")
  IN Return(s3, s3.val, None)

\* The filter written as float(p['positionAmt']) > 0.
IsActivePositive(p) == ParseFloat(p.positionAmt).m > 0

\* float(p['positionAmt']) != 0
IsActive(p) == NonZero(ParseFloat(p.positionAmt))

\* [p for p in positions if float(p['positionAmt']) != 0]
ActivePositions(positions) == SelectSeq(positions, IsActive)

get_position_info(symbol, e, o) ==
  LET s1 == ClientCall(Enter(e), Request("futures_position_information", symbol,
                                         None, "", None, None, None, "", None), o)
      active == IF s1.exc = "none" THEN ActivePositions(s1.val) ELSE <<>>
      s2 == Info(s1, "Retrieved active positions", Some(Len(active)))
      s3 == ExceptApi(s2, "API error getting positions")
  IN Return(s3, active, None)

\* ------------------------------------------------------------- TradingUI

\* What the operator types.
MenuInputs ==
  { <<"0">>, <<"1">>, <<"2">>, <<"3">>, <<"4">>, <<"5">>, <<"6">>, <<"7">>,
    <<"8">>, <<"9">>, <<" ","0"," ">>, <<"x">>, <<>> }

SymbolInputs ==
  { <<"b","t","c","u","s","d","t">>, <<" ","E","T","H","U","S","D","T">> }

SideInputs == { <<"b","u","y">>, <<"S","E","L","L"," ">>, <<"h","o","l","d">> }

QuantityInputs == { <<"0",".","0","1">>, <<" ","2">>, <<"a","b","c">> }

PriceInputs == { <<"1","0","0">>, <<"9","9",".","5">>, <<"1","o">> }

OrderIdInputs == { <<"1">>, <<"2"," ">>, <<"7">>, <<"1",".","5">> }

ConfirmInputs == { <<"y">>, <<"Y">>, <<"n">>, <<"y","e","s">>, <<" ","y">>, <<>> }

OrderChoices == { <<"1">>, <<"2">>, <<"3">>, <<"4">> }

NoForm ==
  [symbol |-> None, side |-> None, quantity |-> None, p1 |-> None,
   p2 |-> None, order_id |-> None]

\* One thing printed on the console.
Scr(kind, exc, ids) == [kind |-> kind, exc |-> exc, ids |-> ids]

\* A gateway invocation as the cycle records it.
Invoked(op, args, g) ==
  Some([op |-> op, args |-> args, ret |-> g.ret, locals |-> g.locals])

\* A handler that catches BinanceAPIException only.
HandledApiOnly(exc) == exc = "BinanceAPIException"

\* except Exception as e: print(Error)
Handled(exc) == exc \in {"ValueError", "BinanceAPIException", "Exception"}

\* The answer tested with startswith('y').
AffirmativePrefix(answer) == Len(answer) > 0 /\ Lower(answer)[1] = "y"

\* The answer not tested at all.
AffirmativeAlways(answer) == TRUE

\* confirm.lower() == 'y'
Affirmative(answer) == Lower(answer) = <<"y">>

\* choice == '0'
ExitSelected(c) == c = <<"0">>

\* The end of a handler's try block: the exception, if any, is printed and
\* the handler returns to run(), which waits for Enter.  An exception the
\* handler does not catch leaves run() and reaches main's except clause.
HandlerEnd(exc, printed) ==
  IF exc = "none"
  THEN /\ screen' = screen \o printed
       /\ pc' = "pause"
       /\ UNCHANGED exitStatus
  ELSE IF Handled(exc)
  THEN /\ screen' = screen \o printed \o <<Scr("Error", exc, None)>>
       /\ pc' = "pause"
       /\ UNCHANGED exitStatus
  ELSE /\ screen' = screen \o printed \o <<Scr("Fatal", exc, None)>>
       /\ pc' = "fatal"
       /\ exitStatus' = Some(1)

\* The log of a cycle in which main's except clause ran.
WithFatal(lines, exc) ==
  IF exc # "none" /\ ~Handled(exc)
  THEN Append(lines, LogLine("ERROR", "Fatal error", None))
  ELSE lines

\* main(): BinanceFuturesBot(api_key, api_secret, testnet=True); a failure
\* is logged, printed and ends the process with status 1.
Startup ==
  /\ pc = "start"
  /\ \E session \in {"ok", "Exception"}, o \in Outcomes("futures_ping") :
       LET g == BotInit(ex, session, o)
       IN /\ g.legal
          /\ calls' = g.calls
          /\ ex' = g.ex
          /\ inv' = Invoked("__init__", None, g)
          /\ IF g.ret.exc = "none"
             THEN /\ pc' = "connected"
                  /\ log' = g.log
                  /\ screen' = <<Scr("Connected successfully", "none", None)>>
                  /\ UNCHANGED exitStatus
             ELSE /\ pc' = "fatal"
                  /\ log' = Append(g.log, LogLine("ERROR", "Fatal error", None))
                  /\ screen' = <<Scr("Fatal", g.ret.exc, None)>>
                  /\ exitStatus' = Some(1)
  /\ UNCHANGED <<choice, form, confirm>>

\* main(): "Press Enter to start trading...", clear_screen(), ui.run()
StartTrading ==
  /\ pc = "connected"
  /\ pc' = "menu"
  /\ calls' = <<>> /\ log' = <<>> /\ screen' = <<>> /\ inv' = None
  /\ UNCHANGED <<choice, form, confirm, ex, exitStatus>>

\* run(): read the choice and dispatch on it.
Select ==
  /\ pc = "menu"
  /\ \E typed \in MenuInputs :
       LET c == Strip(typed)
       IN /\ choice' = c
          /\ IF c \in { <<"1">>, <<"2">>, <<"3">>, <<"4">>, <<"5">>, <<"6">>,
                        <<"7">>, <<"8">>, <<"9">> }
             THEN /\ pc' = "handler"
                  /\ UNCHANGED <<screen, exitStatus>>
             ELSE IF ExitSelected(c)
             THEN /\ pc' = "exited"
                  /\ screen' = <<Scr("Thanks for trading", "none", None)>>
                  /\ exitStatus' = Some(0)
             ELSE /\ pc' = "pause"
                  /\ screen' = <<Scr("Invalid option", "none", None)>>
                  /\ UNCHANGED exitStatus
  /\ UNCHANGED <<form, confirm, calls, log, inv, ex>>

\* The number of prices a place_*_order_ui handler asks for.
PricesAsked(c) ==
  CASE c = <<"1">> -> 0 [] c = <<"2">> -> 1 [] c = <<"3">> -> 2 [] c = <<"4">> -> 2

\* place_*_order_ui up to its confirmation prompt: symbol, the current
\* price, side, quantity and the prices, in the order they are read.
CollectOrderInput ==
  /\ pc = "handler"
  /\ choice \in OrderChoices
  /\ \E symTyped \in SymbolInputs, o \in Outcomes("futures_symbol_ticker"),
        sideTyped \in SideInputs, qtyTyped \in QuantityInputs,
        p1Typed \in PriceInputs, p2Typed \in PriceInputs :
       LET symbol == Upper(Strip(symTyped))
           g      == get_symbol_price(symbol, ex, o)
           side   == Upper(Strip(sideTyped))
           qty    == ParseFloat(Strip(qtyTyped))
           p1     == ParseFloat(Strip(p1Typed))
           p2     == ParseFloat(Strip(p2Typed))
           n      == PricesAsked(choice)
           parsed == qty.ok /\ (n >= 1 => p1.ok) /\ (n >= 2 => p2.ok)
           exc    == IF g.ret.exc # "none" THEN g.ret.exc
                     ELSE IF parsed THEN "none" ELSE "ValueError"
           shown  == IF g.ret.exc = "none"
                     THEN <<Scr("Current Price", "none", None)>> ELSE <<>>
       IN /\ g.legal
          /\ calls' = calls \o g.calls
          /\ log' = WithFatal(log \o g.log, exc)
          /\ ex' = g.ex
          /\ inv' = Invoked("get_symbol_price", [symbol |-> symbol], g)
          /\ IF exc = "none"
             THEN /\ form' = [NoForm EXCEPT
                                !.symbol = symbol, !.side = side,
                                !.quantity = Some(DecOf(qty)),
                                !.p1 = IF n >= 1 THEN Some(DecOf(p1)) ELSE None,
                                !.p2 = IF n >= 2 THEN Some(DecOf(p2)) ELSE None]
                  /\ pc' = "confirming"
                  /\ screen' = screen \o shown \o <<Scr("Confirm", "none", None)>>
                  /\ UNCHANGED exitStatus
             ELSE /\ form' = NoForm
                  /\ HandlerEnd(exc, shown)
  /\ UNCHANGED <<choice, confirm>>

\* cancel_order_ui up to its confirmation prompt.
CollectCancelInput ==
  /\ pc = "handler"
  /\ choice = <<"8">>
  /\ \E symTyped \in SymbolInputs, idTyped \in OrderIdInputs :
       LET symbol == Upper(Strip(symTyped))
           id     == ParseInt(Strip(idTyped))
       IN IF id.ok
          THEN /\ form' = [NoForm EXCEPT !.symbol = symbol, !.order_id = Some(id.n)]
               /\ pc' = "confirming"
               /\ UNCHANGED <<screen, exitStatus, log>>
          ELSE /\ form' = NoForm
               /\ log' = WithFatal(log, "ValueError")
               /\ HandlerEnd("ValueError", <<>>)
  /\ UNCHANGED <<choice, confirm, calls, inv, ex>>

\* The gateway method a confirmed action invokes.
ConfirmedCall(c, f, e, o1, o2) ==
  CASE c = <<"1">> -> place_market_order(f.symbol, f.side, f.quantity[1], e, o1)
    [] c = <<"2">> -> place_limit_order(f.symbol, f.side, f.quantity[1], f.p1[1], e, o1)
    [] c = <<"3">> -> place_stop_limit_order(f.symbol, f.side, f.quantity[1],
                                             f.p1[1], f.p2[1], e, o1)
    [] c = <<"4">> -> place_oco_order(f.symbol, f.side, f.quantity[1], f.p1[1],
                                      f.p2[1], None, e, o1, o2)
    [] c = <<"8">> -> cancel_order(f.symbol, f.order_id[1], e, o1)

MethodOf(c) ==
  CASE c = <<"1">> -> "place_market_order"
    [] c = <<"2">> -> "place_limit_order"
    [] c = <<"3">> -> "place_stop_limit_order"
    [] c = <<"4">> -> "place_oco_order"
    [] c = <<"8">> -> "cancel_order"

\* What a handler prints after its gateway method returned.
Placed(c, ret) ==
  CASE c = <<"4">> ->
         <<Scr("OCO Order placed successfully", "none",
               <<ret.val.take_profit_order.orderId, ret.val.stop_loss_order.orderId>>)>>
    [] c = <<"8">> -> <<Scr("Order cancelled successfully", "none", None)>>
    [] OTHER -> <<Scr("Order placed successfully", "none", <<ret.val.orderId>>)>>

\* The confirmation prompt of place_*_order_ui and cancel_order_ui and what
\* follows it: the gateway call on 'y', a notice otherwise.
Confirm ==
  /\ pc = "confirming"
  /\ \E answer \in ConfirmInputs, o1 \in Outcomes("futures_create_order"),
        o2 \in Outcomes("futures_create_order") :
       /\ confirm' = Some(answer)
       /\ IF Affirmative(answer)
          THEN LET g == ConfirmedCall(choice, form, ex, o1, o2)
               IN /\ g.legal
                  /\ calls' = calls \o g.calls
                  /\ log' = WithFatal(log \o g.log, g.ret.exc)
                  /\ ex' = g.ex
                  /\ inv' = Invoked(MethodOf(choice), form, g)
                  /\ HandlerEnd(g.ret.exc,
                                IF g.ret.exc = "none" THEN Placed(choice, g.ret)
                                ELSE <<>>)
          ELSE /\ screen' = Append(screen, Scr("Aborted", "none", None))
               /\ pc' = "pause"
               /\ UNCHANGED <<calls, log, ex, inv, exitStatus>>
  /\ UNCHANGED <<choice, form>>

\* display_balance
DisplayBalance ==
  /\ pc = "handler"
  /\ choice = <<"5">>
  /\ \E o \in Outcomes("futures_account_balance") :
       LET g == get_account_balance(ex, o)
       IN /\ g.legal
          /\ calls' = calls \o g.calls
          /\ log' = WithFatal(log \o g.log, g.ret.exc)
          /\ ex' = g.ex
          /\ inv' = Invoked("get_account_balance", None, g)
          /\ HandlerEnd(g.ret.exc,
                        IF g.ret.exc = "none"
                        THEN <<Scr("ACCOUNT BALANCE", "none", None)>> ELSE <<>>)
  /\ UNCHANGED <<choice, form, confirm>>

\* display_open_orders
DisplayOpenOrders ==
  /\ pc = "handler"
  /\ choice = <<"6">>
  /\ \E symTyped \in SymbolInputs \cup {<<>>},
        o \in Outcomes("futures_get_open_orders") :
       LET symbol == Upper(Strip(symTyped))
           g      == get_open_orders(symbol, ex, o)
       IN /\ g.legal
          /\ calls' = calls \o g.calls
          /\ log' = WithFatal(log \o g.log, g.ret.exc)
          /\ ex' = g.ex
          /\ inv' = Invoked("get_open_orders", [symbol |-> symbol], g)
          /\ HandlerEnd(g.ret.exc,
                        IF g.ret.exc # "none" THEN <<>>
                        ELSE IF g.ret.val.n = 0
                        THEN <<Scr("No open orders found", "none", None)>>
                        ELSE <<Scr("OPEN ORDERS", "none", None)>>)
  /\ UNCHANGED <<choice, form, confirm>>

\* display_positions
DisplayPositions ==
  /\ pc = "handler"
  /\ choice = <<"7">>
  /\ \E o \in Outcomes("futures_position_information") :
       LET g == get_position_info(None, ex, o)
       IN /\ g.legal
          /\ calls' = calls \o g.calls
          /\ log' = WithFatal(log \o g.log, g.ret.exc)
          /\ ex' = g.ex
          /\ inv' = Invoked("get_position_info", None, g)
          /\ HandlerEnd(g.ret.exc,
                        IF g.ret.exc # "none" THEN <<>>
                        ELSE IF g.ret.val = <<>>
                        THEN <<Scr("No open positions", "none", None)>>
                        ELSE <<Scr("OPEN POSITIONS", "none", None)>>)
  /\ UNCHANGED <<choice, form, confirm>>

\* check_order_status_ui
CheckOrderStatus ==
  /\ pc = "handler"
  /\ choice = <<"9">>
  /\ \E symTyped \in SymbolInputs, idTyped \in OrderIdInputs,
        o \in Outcomes("futures_get_order") :
       LET symbol == Upper(Strip(symTyped))
           id     == ParseInt(Strip(idTyped))
           g      == get_order_status(symbol, id.n, ex, o)
       IN IF id.ok
          THEN /\ g.legal
               /\ calls' = calls \o g.calls
               /\ log' = WithFatal(log \o g.log, g.ret.exc)
               /\ ex' = g.ex
               /\ inv' = Invoked("get_order_status",
                                 [symbol |-> symbol, order_id |-> id.n], g)
               /\ HandlerEnd(g.ret.exc,
                             IF g.ret.exc = "none"
                             THEN <<Scr("ORDER STATUS", "none", <<g.ret.val.orderId>>)>>
                             ELSE <<>>)
          ELSE /\ log' = WithFatal(log, "ValueError")
               /\ HandlerEnd("ValueError", <<>>)
               /\ UNCHANGED <<calls, ex, inv>>
  /\ UNCHANGED <<choice, form, confirm>>

\* run(): "Press Enter to continue...", clear_screen(), the next iteration.
PressEnter ==
  /\ pc = "pause"
  /\ pc' = "menu"
  /\ choice' = None /\ form' = NoForm /\ confirm' = None
  /\ calls' = <<>> /\ log' = <<>> /\ screen' = <<>> /\ inv' = None
  /\ UNCHANGED <<ex, exitStatus>>

Init ==
  /\ pc = "start"
  /\ choice = None /\ form = NoForm /\ confirm = None
  /\ calls = <<>> /\ log = <<>> /\ screen = <<>> /\ inv = None
  /\ ex = [nextId |-> 1, live |-> {}]
  /\ exitStatus = None

Next ==
  \/ Startup
  \/ StartTrading
  \/ Select
  \/ CollectOrderInput
  \/ CollectCancelInput
  \/ Confirm
  \/ DisplayBalance
  \/ DisplayOpenOrders
  \/ DisplayPositions
  \/ CheckOrderStatus
  \/ PressEnter

Spec == Init /\ [][Next]_vars

\* ------------------------------------------- the gateway called directly

\* Arguments a caller of BinanceFuturesBot can pass.
SideArgs ==
  { <<"B","U","Y">>, <<"b","u","y">>, <<"S","e","l","l">>, <<"s","e","l","l">>,
    <<" ","b","u","y">>, <<"h","o","l","d">>, <<>> }

QuantityArgs == { Dec(1, 2) }

PriceArgs == { Dec(100, 0), Dec(995, 1) }

StopLimitArgs == { None, Some(Dec(0, 0)), Some(Dec(98, 0)) }

OrderIdArgs == 1..MaxOrders

GwArgs(symbol, side, quantity, p1, p2, stop_limit_price, order_id) ==
  [symbol |-> symbol, side |-> side, quantity |-> quantity, p1 |-> p1,
   p2 |-> p2, stop_limit_price |-> stop_limit_price, order_id |-> order_id]

\* One invocation by a caller that holds a connected bot.
GwDone(op, args, g) ==
  /\ pc = "gateway"
  /\ g.legal
  /\ pc' = "returned"
  /\ calls' = g.calls
  /\ log' = g.log
  /\ ex' = g.ex
  /\ inv' = Invoked(op, args, g)
  /\ UNCHANGED <<choice, form, confirm, screen, exitStatus>>

\* The caller has looked at the result and is ready for the next invocation.
GwReturn ==
  /\ pc = "returned"
  /\ pc' = "gateway"
  /\ calls' = <<>> /\ log' = <<>> /\ inv' = None
  /\ UNCHANGED <<choice, form, confirm, screen, ex, exitStatus>>

GwPlaceMarketOrder ==
  \E side \in SideArgs, q \in QuantityArgs, o \in Outcomes("futures_create_order") :
    GwDone("place_market_order",
           GwArgs(S("BTCUSDT"), side, Some(q), None, None, None, None),
           place_market_order(S("BTCUSDT"), side, q, ex, o))

GwPlaceLimitOrder ==
  \E side \in SideArgs, q \in QuantityArgs, p \in PriceArgs,
     o \in Outcomes("futures_create_order") :
    GwDone("place_limit_order",
           GwArgs(S("BTCUSDT"), side, Some(q), Some(p), None, None, None),
           place_limit_order(S("BTCUSDT"), side, q, p, ex, o))

GwPlaceStopLimitOrder ==
  \E side \in SideArgs, q \in QuantityArgs, sp \in PriceArgs, lp \in PriceArgs,
     o \in Outcomes("futures_create_order") :
    GwDone("place_stop_limit_order",
           GwArgs(S("BTCUSDT"), side, Some(q), Some(sp), Some(lp), None, None),
           place_stop_limit_order(S("BTCUSDT"), side, q, sp, lp, ex, o))

GwPlaceOcoOrder ==
  \E side \in SideArgs, q \in QuantityArgs, tp \in PriceArgs, sl \in PriceArgs,
     slp \in StopLimitArgs, o1 \in Outcomes("futures_create_order"),
     o2 \in Outcomes("futures_create_order") :
    GwDone("place_oco_order",
           GwArgs(S("BTCUSDT"), side, Some(q), Some(tp), Some(sl), slp, None),
           place_oco_order(S("BTCUSDT"), side, q, tp, sl, slp, ex, o1, o2))

GwCancelOrder ==
  \E id \in OrderIdArgs, o \in Outcomes("futures_cancel_order") :
    GwDone("cancel_order",
           GwArgs(S("BTCUSDT"), None, None, None, None, None, Some(id)),
           cancel_order(S("BTCUSDT"), id, ex, o))

GwGetPositionInfo ==
  \E o \in Outcomes("futures_position_information") :
    GwDone("get_position_info",
           GwArgs(None, None, None, None, None, None, None),
           get_position_info(None, ex, o))

GatewayInit ==
  /\ pc = "gateway"
  /\ choice = None /\ form = NoForm /\ confirm = None
  /\ calls = <<>> /\ log = <<>> /\ screen = <<>> /\ inv = None
  /\ ex = [nextId |-> 1, live |-> {}]
  /\ exitStatus = None

GatewayNext ==
  \/ GwPlaceMarketOrder
  \/ GwPlaceLimitOrder
  \/ GwPlaceStopLimitOrder
  \/ GwPlaceOcoOrder
  \/ GwCancelOrder
  \/ GwGetPositionInfo
  \/ GwReturn

GatewaySpec == GatewayInit /\ [][GatewayNext]_vars

\* ---------------------------------------------------------------- claims

OrderPlacingOps ==
  {"place_market_order", "place_limit_order", "place_stop_limit_order",
   "place_oco_order"}

\* The client calls of the current cycle (or invocation) with the given op.
CallsOf(op) == {i \in 1..Len(calls) : calls[i].req.op = op}

\* a is the word (given in lower and in upper case) in some mix of cases.
CaseVariant(a, lo, up) ==
  Len(a) = Len(up) /\ \A i \in 1..Len(up) : a[i] \in {lo[i], up[i]}

SpellsBuy(a) == CaseVariant(a, <<"b","u","y">>, <<"B","U","Y">>)

SpellsSell(a) == CaseVariant(a, <<"s","e","l","l">>, <<"S","E","L","L">>)

\* C1: each of the four order-placing methods accepts a side that spells BUY
\* or SELL in any mix of cases and sends it in upper case; every other side
\* is rejected with ValueError and not one client call is made.
C1_SideValidated ==
  (pc = "returned" /\ inv[1].op \in OrderPlacingOps) =>
    LET a == inv[1].args.side
        r == inv[1].ret
    IN /\ SpellsBuy(a) =>
            /\ r.exc # "ValueError"
            /\ Len(calls) >= 1
            /\ \A i \in 1..Len(calls) : calls[i].req.side = <<"B","U","Y">>
       /\ SpellsSell(a) =>
            /\ r.exc # "ValueError"
            /\ Len(calls) >= 1
            /\ \A i \in 1..Len(calls) : calls[i].req.side = <<"S","E","L","L">>
       /\ ~(SpellsBuy(a) \/ SpellsSell(a)) =>
            /\ r.exc = "ValueError"
            /\ calls = <<>>

\* C1 witness: place_oco_order rejected a side that is BUY only after
\* stripping, and called nothing.
C1_Witness ==
  /\ pc = "returned"
  /\ inv[1].op = "place_oco_order"
  /\ inv[1].args.side = <<" ","b","u","y">>
  /\ inv[1].ret.exc = "ValueError"
  /\ calls = <<>>

\* C2: when the take-profit submission of place_oco_order fails, that call is
\* the only client call of the invocation, the method raises its exception,
\* and no STOP_MARKET order is submitted.
C2_NoStopLossAfterTakeProfitFailure ==
  (/\ pc = "returned"
   /\ inv[1].op = "place_oco_order"
   /\ Len(calls) >= 1
   /\ calls[1].resp.exc # "ok") =>
    /\ Len(calls) = 1
    /\ calls[1].req.type = "LIMIT"
    /\ inv[1].ret.exc = calls[1].resp.exc
    /\ \A i \in 1..Len(calls) : calls[i].req.type # "STOP_MARKET"

\* C2 witness: a place_oco_order whose take-profit submission was refused.
C2_Witness ==
  /\ pc = "returned"
  /\ inv[1].op = "place_oco_order"
  /\ Len(calls) = 1
  /\ calls[1].req.type = "LIMIT"
  /\ calls[1].resp.exc = "BinanceAPIException"
  /\ inv[1].ret.exc = "BinanceAPIException"

\* The operator's answer at the confirmation prompt of the current cycle.
SaidYes == confirm # None /\ confirm[1] \in { <<"y">>, <<"Y">> }

Declined == confirm # None /\ confirm[1] \notin { <<"y">>, <<"Y">> }

LastPrinted == screen[Len(screen)]

\* The calls of the cycle that place or cancel an order.
OrderCalls == CallsOf("futures_create_order") \cup CallsOf("futures_cancel_order")

\* The stop-loss submissions of the cycle that failed after a take-profit
\* submission of the same cycle succeeded.
FailedStopLoss ==
  {i \in 1..Len(calls) :
     /\ calls[i].req.type = "STOP_MARKET"
     /\ calls[i].resp.exc # "ok"
     /\ \E j \in 1..(i - 1) : calls[j].req.type = "LIMIT" /\ calls[j].resp.exc = "ok"}

\* C3: in a confirmed OCO action whose take-profit submission succeeded and
\* whose stop-loss submission failed, place_oco_order raises the exception of
\* the failed call, the console prints it as an error, the log reports the
\* take-profit order as placed under its id, no cancel call is made, and the
\* take-profit order is live on the exchange.
C3_TakeProfitStaysLive ==
  (choice = <<"4">> /\ pc \in {"pause", "fatal"} /\ FailedStopLoss # {}) =>
    \A i \in FailedStopLoss :
      LET tp == calls[i - 1]
      IN /\ tp.req.type = "LIMIT" /\ tp.resp.exc = "ok"
         /\ inv[1].op = "place_oco_order"
         /\ inv[1].ret.exc = calls[i].resp.exc
         /\ inv[1].ret.exc \in Failures
         /\ pc = "pause"
         /\ LastPrinted = Scr("Error", calls[i].resp.exc, None)
         /\ \E k \in 1..Len(log) :
              log[k] = LogLine("INFO", "Take-profit order placed",
                               Some(tp.resp.val.orderId))
         /\ CallsOf("futures_cancel_order") = {}
         /\ i = Len(calls)
         /\ tp.resp.val.orderId \in ex.live

\* C3 witness: the stop-loss submission was refused after the take-profit
\* order got id 1, which is live.
C3_Witness ==
  /\ pc = "pause"
  /\ choice = <<"4">>
  /\ SaidYes
  /\ FailedStopLoss = {3}
  /\ calls[2].resp.val.orderId = 1
  /\ calls[3].resp.exc = "BinanceAPIException"
  /\ 1 \in ex.live
  /\ LastPrinted.kind = "Error"

\* C4 as stated: a declined order action leaves the cycle with no gateway
\* call at all.
C4_DeclinedNoGatewayCall ==
  (pc = "pause" /\ Declined) => calls = <<>>

\* C4 as amended: a declined order action places and cancels nothing; the one
\* gateway call of a declined market, limit, stop-limit or OCO action is the
\* price query made before the prompt, and a declined cancel calls nothing.
C4_DeclinedNoOrderCall ==
  (pc = "pause" /\ Declined) =>
    /\ OrderCalls = {}
    /\ choice \in OrderChoices =>
         /\ Len(calls) = 1
         /\ calls[1].req.op = "futures_symbol_ticker"
         /\ inv[1].op = "get_symbol_price"
    /\ choice = <<"8">> => calls = <<>> /\ inv = None
    /\ LastPrinted = Scr("Aborted", "none", None)

\* C4 witness: a market order declined with "yes", which is not 'y'.
C4_Witness ==
  /\ pc = "pause"
  /\ choice = <<"1">>
  /\ confirm = Some(<<"y","e","s">>)
  /\ Len(calls) = 1
  /\ calls[1].req.op = "futures_symbol_ticker"

\* A failure the cycle has seen: a client call that raised, or a gateway
\* method that raised.
FailureSeen ==
  \/ \E i \in 1..Len(calls) : calls[i].resp.exc # "ok"
  \/ inv # None /\ inv[1].ret.exc # "none"

C6_NoCallBeforeConfirmation ==
  (pc \in {"handler", "confirming", "pause"} /\ calls # <<>>) => SaidYes

\* C6 as amended: a call that places or cancels an order is made only by the
\* step that reads an affirmative answer at the confirmation prompt, which is
\* reached only from the input collection of actions 1, 2, 3, 4 and 8.
C6_OrderCallOnlyAfterYes ==
  /\ [](OrderCalls # {} => SaidYes /\ choice \in OrderChoices \cup { <<"8">> })
  /\ [][Cardinality(OrderCalls') > Cardinality(OrderCalls) =>
          pc = "confirming" /\ confirm = None /\ SaidYes']_vars
  /\ [][pc' = "confirming" =>
          /\ pc = "handler"
          /\ choice \in OrderChoices \cup { <<"8">> }
          /\ confirm' = None
          /\ OrderCalls' = {}]_vars

\* C6 witness: a limit order submitted after the answer 'Y'.
C6_Witness ==
  /\ pc = "pause"
  /\ choice = <<"2">>
  /\ confirm = Some(<<"Y">>)
  /\ Len(calls) = 2
  /\ calls[2].req.op = "futures_create_order"
  /\ calls[2].resp.exc = "ok"

\* The amount, as the exchange wrote it, has a digit other than 0.
NonZeroAmount(amt) ==
  \E i \in 1..Len(amt) : amt[i] \in {"1","2","3","4","5","6","7","8","9"}

\* C7: get_position_info returns the positions the exchange reported whose
\* amount is not zero, each of them, in the exchange's order.
C7_ZeroPositionsExcluded ==
  (/\ pc = "returned"
   /\ inv[1].op = "get_position_info"
   /\ Len(calls) = 1
   /\ calls[1].resp.exc = "ok") =>
    LET given == calls[1].resp.val
        got   == inv[1].ret.val
        kept  == {j \in 1..Len(given) : NonZeroAmount(given[j].positionAmt)}
    IN /\ inv[1].ret.exc = "none"
       /\ Len(got) = Cardinality(kept)
       /\ \E f \in [1..Len(got) -> kept] :
            /\ \A a, b \in 1..Len(got) : a < b => f[a] < f[b]
            /\ \A a \in 1..Len(got) : got[a] = given[f[a]]

\* C7 witness: the amounts 0.000, 1.5 and -2.0 give a result of length 2.
C7_Witness ==
  /\ pc = "returned"
  /\ inv[1].op = "get_position_info"
  /\ calls[1].resp.exc = "ok"
  /\ calls[1].resp.val =
       << Position(<<"0",".","0","0","0">>), Position(<<"1",".","5">>),
          Position(<<"-","2",".","0">>) >>
  /\ Len(inv[1].ret.val) = 2

C9_ConfirmedMarketOrder ==
  (/\ pc = "pause"
   /\ choice = <<"1">>
   /\ SaidYes
   /\ form.side \in { <<"B","U","Y">>, <<"S","E","L","L">> }) =>
    /\ Cardinality(CallsOf("futures_create_order")) = 1
    /\ \A i \in CallsOf("futures_create_order") :
         /\ i = Len(calls)
         /\ calls[i].req.symbol = form.symbol
         /\ calls[i].req.side = form.side
         /\ calls[i].req.type = "MARKET"
         /\ calls[i].req.quantity = form.quantity
         /\ calls[i].req.price = None
         /\ calls[i].req.stopPrice = None
         /\ calls[i].resp.exc = "ok" =>
              LastPrinted = Scr("Order placed successfully", "none",
                                <<calls[i].resp.val.orderId>>)
         /\ calls[i].resp.exc # "ok" =>
              LastPrinted = Scr("Error", calls[i].resp.exc, None)

\* C9 witness: BUY 0.01 BTCUSDT was confirmed, the exchange returned id 1 and
\* the console printed it.
C9_Witness ==
  /\ pc = "pause"
  /\ choice = <<"1">>
  /\ SaidYes
  /\ Len(calls) = 2
  /\ calls[2].req.symbol = <<"B","T","C","U","S","D","T">>
  /\ calls[2].req.side = <<"B","U","Y">>
  /\ calls[2].req.type = "MARKET"
  /\ calls[2].req.quantity = Some(Dec(1, 2))
  /\ calls[2].resp.exc = "ok"
  /\ LastPrinted = Scr("Order placed successfully", "none", <<1>>)

\* C10: the bot is connected only after one successful ping; a failed ping
\* (or a client that cannot be created) ends the process with status 1 with
\* no call other than that ping made and the menu never entered; the process
\* ends this way only from startup, and no ping is made after startup.
C10_PingFailureAbortsStartup ==
  /\ [](/\ pc = "connected" =>
             /\ Len(calls) = 1
             /\ calls[1].req.op = "futures_ping"
             /\ calls[1].resp.exc = "ok"
        /\ pc = "fatal" =>
             /\ exitStatus = Some(1)
             /\ choice = None
             /\ Len(calls) <= 1
             /\ \A i \in 1..Len(calls) :
                  calls[i].req.op = "futures_ping" /\ calls[i].resp.exc # "ok"
             /\ inv[1].op = "__init__"
             /\ LastPrinted = Scr("Fatal", inv[1].ret.exc, None)
        /\ pc \in {"menu", "handler", "confirming", "pause", "exited"} =>
             /\ CallsOf("futures_ping") = {}
             /\ exitStatus # Some(1))
  /\ [][(pc' = "fatal") => (pc = "start")]_vars
  /\ [][(pc = "fatal") => FALSE]_vars
  /\ [][(pc' = "menu") => (pc \in {"connected", "pause"})]_vars

\* C10 witness: the ping was refused and the process ended with status 1.
C10_Witness ==
  /\ pc = "fatal"
  /\ Len(calls) = 1
  /\ calls[1].req.op = "futures_ping"
  /\ calls[1].resp.exc = "BinanceAPIException"
  /\ exitStatus = Some(1)

\* The things of one kind printed in the current cycle.
PrintedOf(kind) == {k \in 1..Len(screen) : screen[k].kind = kind}

\* The log lines of one level written in the current cycle.
LoggedAt(level) == {k \in 1..Len(log) : log[k].level = level}

\* C11: in a menu cycle a failed exchange call is the last call of the
\* cycle and no request is sent twice; the console prints the failure as one
\* error message and the gateway logs at most one ERROR line for it; after a
\* failure the calls of the cycle change only by the return to the menu.
C11_NoRetry ==
  /\ []((pc \in {"handler", "confirming", "pause"}) =>
          /\ \A i \in 1..Len(calls) :
               calls[i].resp.exc # "ok" =>
                 /\ i = Len(calls)
                 /\ pc = "pause"
                 /\ Cardinality(PrintedOf("Error")) = 1
                 /\ LastPrinted = Scr("Error", calls[i].resp.exc, None)
                 /\ Cardinality(LoggedAt("ERROR")) =
                      IF calls[i].resp.exc = "BinanceAPIException" THEN 1 ELSE 0
          /\ \A i, j \in 1..Len(calls) : i < j => calls[i].req # calls[j].req)
  /\ [][((\E i \in 1..Len(calls) : calls[i].resp.exc # "ok")
          /\ pc \in {"handler", "confirming", "pause"} /\ calls' # calls) =>
          (calls' = <<>> /\ pc' = "menu")]_vars

\* C11 witness: a confirmed market order was refused; the refused call is the
\* last of the cycle, printed once and logged once.
C11_Witness ==
  /\ pc = "pause"
  /\ choice = <<"1">>
  /\ Len(calls) = 2
  /\ calls[2].req.op = "futures_create_order"
  /\ calls[2].resp.exc = "BinanceAPIException"
  /\ Cardinality(PrintedOf("Error")) = 1
  /\ Cardinality(LoggedAt("ERROR")) = 1

\* The side in upper case, for a side that spells BUY or SELL.
Spelled(a) == IF SpellsBuy(a) THEN <<"B","U","Y">> ELSE <<"S","E","L","L">>

\* C12: a place_oco_order that returns has made exactly two create-order
\* calls: a LIMIT order at the take-profit price with time in force GTC, then
\* a STOP_MARKET order triggered at the stop-loss price, both with the symbol,
\* the side in upper case and the quantity passed in; it returns the first
\* call's order as take_profit_order and the second's as stop_loss_order.
C12_OcoTwoLegsInOrder ==
  (/\ pc = "returned"
   /\ inv[1].op = "place_oco_order"
   /\ inv[1].ret.exc = "none") =>
    LET a == inv[1].args
    IN /\ Len(calls) = 2
       /\ \A i \in 1..2 :
            /\ calls[i].req.op = "futures_create_order"
            /\ calls[i].req.symbol = a.symbol
            /\ calls[i].req.side = Spelled(a.side)
            /\ calls[i].req.quantity = a.quantity
            /\ calls[i].resp.exc = "ok"
       /\ calls[1].req.type = "LIMIT"
       /\ calls[1].req.price = a.p1
       /\ calls[1].req.stopPrice = None
       /\ calls[1].req.timeInForce = "GTC"
       /\ calls[2].req.type = "STOP_MARKET"
       /\ calls[2].req.stopPrice = a.p2
       /\ inv[1].ret.val.oco_type = "manual"
       /\ inv[1].ret.val.take_profit_order = calls[1].resp.val
       /\ inv[1].ret.val.stop_loss_order = calls[2].resp.val
       /\ calls[1].resp.val.orderId # calls[2].resp.val.orderId

\* C12 witness: "Sell" 0.01 with take-profit 100 and stop-loss 99.5 returned
\* the orders 1 and 2.
C12_Witness ==
  /\ pc = "returned"
  /\ inv[1].op = "place_oco_order"
  /\ inv[1].args.side = <<"S","e","l","l">>
  /\ inv[1].args.p1 = Some(Dec(100, 0))
  /\ inv[1].args.p2 = Some(Dec(995, 1))
  /\ inv[1].ret.exc = "none"
  /\ inv[1].ret.val.take_profit_order.orderId = 1
  /\ inv[1].ret.val.stop_loss_order.orderId = 2
  /\ calls[2].req.side = <<"S","E","L","L">>

\* What of a place_oco_order invocation is seen outside it: the requests
\* sent with their responses, the result, and the exchange afterwards.
Observed(g) == [calls |-> g.calls, ret |-> g.ret, ex |-> g.ex]

\* C13: from any state of the exchange, two place_oco_order invocations that
\* differ in stop_limit_price alone send the same requests and return the
\* same result; and the STOP_MARKET request of an invocation carries no price.
C13_StopLimitPriceUnused ==
  /\ pc = "gateway" =>
       \A side \in SideArgs, q \in QuantityArgs, tp \in PriceArgs, sl \in PriceArgs,
          o1 \in Outcomes("futures_create_order"),
          o2 \in Outcomes("futures_create_order"),
          slpA \in StopLimitArgs, slpB \in StopLimitArgs :
         LET gA == place_oco_order(S("BTCUSDT"), side, q, tp, sl, slpA, ex, o1, o2)
             gB == place_oco_order(S("BTCUSDT"), side, q, tp, sl, slpB, ex, o1, o2)
         IN /\ gA.legal = gB.legal
            /\ gA.calls = gB.calls
            /\ gA.log = gB.log
            /\ Observed(gA) = Observed(gB)
  /\ (pc = "returned" /\ inv[1].op = "place_oco_order") =>
       \A i \in 1..Len(calls) :
         /\ calls[i].req.type \in {"LIMIT", "STOP_MARKET"}
         /\ calls[i].req.type = "STOP_MARKET" =>
              /\ calls[i].req.price = None
              /\ calls[i].req.stopPrice = inv[1].args.p2
              /\ calls[i].req.timeInForce = ""
         /\ calls[i].req.type = "LIMIT" => calls[i].req.price = inv[1].args.p1

\* C13 witness: a place_oco_order given the stop-limit price 98 returned, and
\* its stop-loss request has the trigger price and no limit price.
C13_Witness ==
  /\ pc = "returned"
  /\ inv[1].op = "place_oco_order"
  /\ inv[1].args.stop_limit_price = Some(Dec(98, 0))
  /\ inv[1].locals.stop_limit_price = Some(Dec(98, 0))
  /\ inv[1].ret.exc = "none"
  /\ Len(calls) = 2
  /\ calls[2].req.type = "STOP_MARKET"
  /\ calls[2].req.price = None

\* The one client method a read-only menu action calls.
QueryOf(c) ==
  CASE c = <<"5">> -> "futures_account_balance"
    [] c = <<"6">> -> "futures_get_open_orders"
    [] c = <<"7">> -> "futures_position_information"
    [] c = <<"9">> -> "futures_get_order"

ReadOnlyChoices == { <<"5">>, <<"6">>, <<"7">>, <<"9">> }

MenuChoices == OrderChoices \cup ReadOnlyChoices \cup { <<"8">>, <<"0">> }

\* C14: in every menu cycle a read-only action (5, 6, 7, 9) calls its own
\* query at most once and nothing else, an unrecognised choice calls
\* nothing, and a create-order or cancel-order call is made only in a cycle
\* of choice 1, 2, 3, 4 or 8; the exchange's orders change only in such a
\* cycle.
C14_ReadOnlyActionsPlaceNothing ==
  /\ []((pc \in {"menu", "handler", "confirming", "pause", "exited"}) =>
          /\ choice \in ReadOnlyChoices =>
               /\ Len(calls) <= 1
               /\ \A i \in 1..Len(calls) : calls[i].req.op = QueryOf(choice)
               /\ OrderCalls = {}
          /\ choice \notin MenuChoices => calls = <<>>
          /\ OrderCalls # {} => choice \in OrderChoices \cup { <<"8">> }
          /\ CallsOf("futures_create_order") # {} => choice \in OrderChoices
          /\ CallsOf("futures_cancel_order") # {} => choice = <<"8">>)
  /\ [][(ex' # ex /\ pc # "start") =>
          (pc = "confirming" /\ choice \in OrderChoices \cup { <<"8">> })]_vars

\* C14 witness: with order 1 live, its status was asked for and printed; the
\* cycle made that one query and order 1 is still live.
C14_Witness ==
  /\ pc = "pause"
  /\ choice = <<"9">>
  /\ Len(calls) = 1
  /\ calls[1].req.op = "futures_get_order"
  /\ calls[1].req.orderId = Some(1)
  /\ calls[1].resp.exc = "ok"
  /\ 1 \in ex.live
  /\ LastPrinted = Scr("ORDER STATUS", "none", <<1>>)

====
